---- MODULE Spec2Model ----
(***************************************************************************)
(* Model of the Scrivener -> Obsidian conversion pipeline                  *)
(* (src/app/converter.py): the filename sanitizer, the position prefix,    *)
(* the binder tree built by the parser, the path planner and the           *)
(* orchestrator's walk with its result report and filesystem effects.      *)
(*                                                                         *)
(* Strings are sequences of one-character strings, so that the sanitizer   *)
(* and the prefix formatter are computed character by character.           *)
(***************************************************************************)
EXTENDS Integers, Sequences, FiniteSets, TLC

\* ------------------------------------------------------------------ bounds
\* Longest input string given to the sanitizer.
MaxLen == 4
\* Longest title given to the segment formatter.
MaxTitleLen == 2
\* Largest zero-based sibling position given to the segment formatter.
MaxPosition == 120
\* Largest number of entries in a binder.
MaxItems == 3

VARIABLES
    \* --- sanitizer / segment harness (pure functions) ---
    sName,      \* the string handed to sanitize_filename
    sOut,       \* the results of applying sanitize_filename once, twice
    gPos,       \* a sibling position
    gTitle,     \* a title
    gSeg,       \* <<>> or <<the segment built for (gPos, gTitle)>>
    \* --- convert_project ---
    pc,                   \* "start", "walk", "returned", "raised" ("idle": no run)
    source,               \* what opening the source project does
    output_dir,           \* "absent", "dir" or "blocked": the destination path
    binder,               \* the parsed tree: item id -> BinderItem
    order,                \* the entries project.all_items() yields, in order
    cursor,               \* index into order of the next entry to visit
    success,              \* ConversionResult.success
    documents_converted,  \* ConversionResult.documents_converted
    folders_created,      \* ConversionResult.folders_created
    errors,               \* ConversionResult.errors
    skipped,              \* ConversionResult.skipped
    dirs,                 \* directories below the vault root (paths)
    files,                \* files below the vault root (paths)
    made,                 \* history: what each visit wrote as its own artifact
    visited               \* history: the entries visited so far, in order

pureVars == <<sName, sOut, gPos, gTitle, gSeg>>
resultVars == <<success, documents_converted, folders_created, errors, skipped>>
fsVars == <<output_dir, dirs, files>>
runVars == <<pc, source, binder, order, cursor, resultVars, fsVars, made, visited>>
vars == <<pureVars, runVars>>

\* ------------------------------------------------------------ strings
Alphabet == {"a", "-", "/", " ", "."}

Strings(n) == UNION {[1..k -> Alphabet] : k \in 0..n}

Untitled == <<"U", "n", "t", "i", "t", "l", "e", "d">>

\* The characters replaced by re.sub(r'[<>:"/\\|?*]', '-', name).
BadChars == {"<", ">", ":", "\"", "/", "\\", "|", "?", "*"}

ReplaceBad(s) == [i \in 1..Len(s) |-> IF s[i] \in BadChars THEN "-" ELSE s[i]]

\* name.strip(' .')
StripChars == {" ", "."}

RECURSIVE LStrip(_)
LStrip(s) ==
    IF s # <<>> /\ Head(s) \in StripChars THEN LStrip(Tail(s)) ELSE s

RECURSIVE RStrip(_)
RStrip(s) ==
    IF s # <<>> /\ s[Len(s)] \in StripChars
    THEN RStrip(SubSeq(s, 1, Len(s) - 1))
    ELSE s

Strip(s) == RStrip(LStrip(s))

\* re.sub(r'-+', '-', name)
RECURSIVE CollapseDashes(_)
CollapseDashes(s) ==
    IF Len(s) < 2 THEN s
    ELSE IF s[1] = "-" /\ s[2] = "-" THEN CollapseDashes(Tail(s))
    ELSE <<s[1]>> \o CollapseDashes(Tail(s))

\* A sanitizer that collapses dashes before replacing the bad characters.
sanitize_filename_swapped(name) ==
    LET r == Strip(ReplaceBad(CollapseDashes(name)))
    IN IF r = <<>> THEN Untitled ELSE r

sanitize_filename(name) ==
    LET r == CollapseDashes(Strip(ReplaceBad(name)))
    IN IF r = <<>> THEN Untitled ELSE r

\* ------------------------------------------------------------ prefix
DigitChar(d) ==
    CASE d = 0 -> "0" [] d = 1 -> "1" [] d = 2 -> "2" [] d = 3 -> "3"
      [] d = 4 -> "4" [] d = 5 -> "5" [] d = 6 -> "6" [] d = 7 -> "7"
      [] d = 8 -> "8" [] d = 9 -> "9"

RECURSIVE Decimal(_)
Decimal(n) ==
    IF n < 10 THEN <<DigitChar(n)>>
    ELSE Append(Decimal(n \div 10), DigitChar(n % 10))

\* format(n, "02d"): decimal, padded with zeros to a minimum width of two.
Format02d(n) ==
    LET d == Decimal(n) IN IF Len(d) < 2 THEN <<"0">> \o d ELSE d

\* A prefix that renders the zero-based position itself.
prefix_zero_based(position) == Format02d(position)

\* prefix = f"{item.position + 1:02d}"
prefix(position) == Format02d(position + 1)

\* f"{prefix} {sanitize_filename(title)}"
segment_name(position, title) ==
    prefix(position) \o <<" ">> \o sanitize_filename(title)

\* ------------------------------------------------------------ binder tree
\* Type attributes found in the project index ("PDF" stands for every type
\* that is neither a folder variant nor Text).
ItemTypes == {"Folder", "DraftFolder", "TrashFolder", "Text", "PDF"}

Titles == {<<"a">>, <<"a", "/">>}

\* enumerate(...findall("BinderItem")): the index of element i among the
\* elements with the same parent, in document order (ids are document order
\* within one parent).
position_always_zero(par, i) == 0

position_of(par, i) == Cardinality({j \in 1..(i - 1) : par[j] = par[i]})

\* The tree _parse_project builds from an index with n BinderItem elements,
\* element i nested in element par[i] (0: directly in the Binder).
parse_binder_item(par, types, titles, i) ==
    [title     |-> titles[i],
     item_type |-> types[i],
     position  |-> position_of(par, i),
     parent    |-> par[i]]

parse_project(n, par, types, titles) ==
    [i \in 1..n |-> parse_binder_item(par, types, titles, i)]

\* The elements enclosing element i (0: the Binder itself).
RECURSIVE Enclosing(_, _)
Enclosing(par, i) == IF i = 0 THEN {0} ELSE {i} \cup Enclosing(par, par[i])

\* The nestings of n elements numbered in document order: an element opens
\* inside the previous element or inside one of those enclosing it.
Nestings(n) ==
    {par \in [1..n -> 0..n] :
        \A i \in 1..n : par[i] < i /\ par[i] \in Enclosing(par, i - 1)}

Items(b) == DOMAIN b

is_folder(item) ==
    item.item_type \in {"Folder", "DraftFolder", "ResearchFolder", "TrashFolder"}

is_text(item) == item.item_type = "Text"

is_trash(item) == item.item_type = "TrashFolder"

\* item.children (p = 0: the project's top-level list), in the order the
\* parser appended them (document order).
children(b, p) ==
    LET kids == {i \in Items(b) : b[i].parent = p}
    IN [k \in 1..Cardinality(kids) |->
            CHOOSE i \in kids : Cardinality({j \in kids : j < i}) = k - 1]

RECURSIVE walk(_, _), walk_each(_, _)
\* BinderItem.walk: the item, then each child's walk.
walk(b, i) == <<i>> \o walk_each(b, children(b, i))

walk_each(b, seq) ==
    IF seq = <<>> THEN <<>>
    ELSE walk(b, Head(seq)) \o walk_each(b, Tail(seq))

\* ScrivenerProject.all_items
all_items(b) == walk_each(b, children(b, 0))

Reverse(s) == [k \in 1..Len(s) |-> s[Len(s) + 1 - k]]

\* The parts list of get_item_path as the loop appends to it: nearest
\* ancestor first, TrashFolder ancestors left out.
RECURSIVE path_parts_upward(_, _)
path_parts_upward(b, current) ==
    IF current = 0 THEN <<>>
    ELSE (IF ~is_trash(b[current])
          THEN <<segment_name(b[current].position, b[current].title)>>
          ELSE <<>>)
         \o path_parts_upward(b, b[current].parent)

\* A path planner that forgets to reverse the collected parts.
get_item_path_unreversed(b, i) == path_parts_upward(b, b[i].parent)

get_item_path(b, i) == Reverse(path_parts_upward(b, b[i].parent))

\* A trash test that looks at the direct parent only.
in_trash_parent_only(b, i) ==
    b[i].parent # 0 /\ is_trash(b[b[i].parent])

\* The in_trash loop of convert_project.
RECURSIVE trash_above(_, _)
trash_above(b, current) ==
    IF current = 0 THEN FALSE
    ELSE IF is_trash(b[current]) THEN TRUE
    ELSE trash_above(b, b[current].parent)

in_trash(b, i) == trash_above(b, b[i].parent)

\* ------------------------------------------------------------ filesystem
\* Path.mkdir(parents=True, exist_ok=True): the directory and all its parents.
Prefixes(path) == {SubSeq(path, 1, k) : k \in 1..Len(path)}

MdExt == <<".", "m", "d">>

\* folder_path = output_dir.joinpath(*path_parts, folder_name)
folder_path(b, i) ==
    Append(get_item_path(b, i), segment_name(b[i].position, b[i].title))

\* file_path = file_dir / f"{prefix} {sanitize_filename(item.title)}.md"
file_path(b, i) ==
    Append(get_item_path(b, i),
           segment_name(b[i].position, b[i].title) \o MdExt)

\* ------------------------------------------------------------ messages
OpenError(why) ==
    [msg |-> "Could not open project", title |-> <<>>, detail |-> why]

ItemError(item) ==
    [msg |-> "Error converting", title |-> item.title, detail |-> "exception"]

SkipNotice(item) == [title |-> item.title, note |-> "(trash)"]

\* A final policy that wants the errors to be fewer than the documents by two.
final_success_strict(errs, docs) == Len(errs) + 1 < docs

\* result.success = len(result.errors) < result.documents_converted
final_success(errs, docs) == Len(errs) < docs

\* ------------------------------------------------------------ convert_project
\* What ScrivenerProject(scriv_path) does: "ok", or the exception it raises.
OpenOutcomes == {"ok", "FileNotFoundError", "NotADirectory", "NoScrivx", "ParseError"}

\* The destination path before the run: absent, already a directory, or
\* blocked (a regular file is in the way, or a parent cannot be written).
DestStates == {"absent", "dir", "blocked"}

InitRun ==
    /\ pc = "start"
    /\ source \in OpenOutcomes
    /\ output_dir \in DestStates
    /\ \/ /\ source = "ok"
          /\ \E n \in 0..MaxItems :
                \E par \in Nestings(n), types \in [1..n -> ItemTypes],
                   titles \in [1..n -> Titles] :
                    binder = parse_project(n, par, types, titles)
       \/ /\ source # "ok"
          /\ binder = <<>>
    /\ order = <<>>
    /\ cursor = 0
    /\ success = TRUE
    /\ documents_converted = 0
    /\ folders_created = 0
    /\ errors = <<>>
    /\ skipped = <<>>
    /\ dirs = {}
    /\ files = {}
    /\ made = {}
    /\ visited = <<>>

IdlePure ==
    /\ sName = <<>>
    /\ sOut = <<>>
    /\ gPos = 0
    /\ gTitle = <<>>
    /\ gSeg = <<>>

Init == IdlePure /\ InitRun

Current == order[cursor]

AtItem == pc = "walk" /\ cursor \in 1..Len(order)

Advance ==
    /\ cursor' = cursor + 1
    /\ visited' = Append(visited, Current)
    /\ UNCHANGED <<pc, source, binder, order, output_dir, success, pureVars>>

\* An open that fails and creates the destination all the same.
OpenFailsAndMkdir ==
    /\ pc = "start"
    /\ source # "ok"
    /\ success' = FALSE
    /\ errors' = Append(errors, OpenError(source))
    /\ pc' = "returned"
    /\ output_dir' = IF output_dir = "absent" THEN "dir" ELSE output_dir
    /\ UNCHANGED <<source, binder, order, cursor, documents_converted, folders_created,
                   skipped, dirs, files, made, visited, pureVars>>

\* Lines 276-281: the constructor raises; the failed result is returned.
OpenFails ==
    /\ pc = "start"
    /\ source # "ok"
    /\ success' = FALSE
    /\ errors' = Append(errors, OpenError(source))
    /\ pc' = "returned"
    /\ UNCHANGED <<source, binder, order, cursor, documents_converted, folders_created,
                   skipped, fsVars, made, visited, pureVars>>

\* Lines 277, 283-284: the project opens and the destination is created.
OpenAndMkdir ==
    /\ pc = "start"
    /\ source = "ok"
    /\ output_dir # "blocked"
    /\ output_dir' = "dir"
    /\ pc' = "walk"
    /\ order' = all_items(binder)
    /\ cursor' = 1
    /\ UNCHANGED <<source, binder, resultVars, dirs, files, made, visited, pureVars>>

\* Lines 277, 283-284: the project opens, output_dir.mkdir raises; nothing
\* catches it.
MkdirRaises ==
    /\ pc = "start"
    /\ source = "ok"
    /\ output_dir = "blocked"
    /\ pc' = "raised"
    /\ UNCHANGED <<source, binder, order, cursor, resultVars, fsVars, made, visited, pureVars>>

\* Lines 300-302.
VisitTrash ==
    /\ AtItem
    /\ is_trash(binder[Current])
    /\ skipped' = Append(skipped, SkipNotice(binder[Current]))
    /\ Advance
    /\ UNCHANGED <<documents_converted, folders_created, errors, dirs, files, made>>

\* Lines 304-313.
VisitInTrash ==
    /\ AtItem
    /\ ~is_trash(binder[Current])
    /\ in_trash(binder, Current)
    /\ Advance
    /\ UNCHANGED <<documents_converted, folders_created, errors, skipped,
                   dirs, files, made>>

Emitted(i) == ~is_trash(binder[i]) /\ ~in_trash(binder, i)

\* Lines 321-326.
VisitFolder ==
    /\ AtItem
    /\ Emitted(Current)
    /\ is_folder(binder[Current])
    /\ dirs' = dirs \cup Prefixes(folder_path(binder, Current))
    /\ made' = made \cup {[item |-> Current, what |-> "dir",
                           path |-> folder_path(binder, Current)]}
    /\ folders_created' = folders_created + 1
    /\ Advance
    /\ UNCHANGED <<documents_converted, errors, skipped, files>>

\* Lines 321-325, 356-357: folder_path.mkdir raises, having created some of
\* the parents or none.
VisitFolderFails ==
    /\ AtItem
    /\ Emitted(Current)
    /\ is_folder(binder[Current])
    /\ \E k \in 0..Len(get_item_path(binder, Current)) :
          dirs' = dirs \cup Prefixes(SubSeq(folder_path(binder, Current), 1, k))
    /\ errors' = Append(errors, ItemError(binder[Current]))
    /\ Advance
    /\ UNCHANGED <<documents_converted, folders_created, skipped, files, made>>

\* Lines 328-354.
VisitText ==
    /\ AtItem
    /\ Emitted(Current)
    /\ ~is_folder(binder[Current])
    /\ is_text(binder[Current])
    /\ dirs' = dirs \cup Prefixes(get_item_path(binder, Current))
    /\ files' = files \cup {file_path(binder, Current)}
    /\ made' = made \cup {[item |-> Current, what |-> "file",
                           path |-> file_path(binder, Current)]}
    /\ documents_converted' = documents_converted + 1
    /\ Advance
    /\ UNCHANGED <<folders_created, errors, skipped>>

\* A handler that records the error and abandons the rest of the walk.
VisitTextFailsAborts ==
    /\ AtItem
    /\ Emitted(Current)
    /\ ~is_folder(binder[Current])
    /\ is_text(binder[Current])
    /\ errors' = Append(errors, ItemError(binder[Current]))
    /\ cursor' = Len(order) + 1
    /\ visited' = Append(visited, Current)
    /\ UNCHANGED <<pc, source, binder, order, output_dir, success, pureVars,
                   documents_converted, folders_created, skipped, dirs, files, made>>

\* Lines 328-353, 356-357: file_dir.mkdir raises (part of the parents
\* created), or a read raises (the directory exists), or write_text raises
\* (the directory exists, the file was opened or not).
VisitTextFails ==
    /\ AtItem
    /\ Emitted(Current)
    /\ ~is_folder(binder[Current])
    /\ is_text(binder[Current])
    /\ \/ /\ get_item_path(binder, Current) # <<>>
          /\ \E k \in 0..(Len(get_item_path(binder, Current)) - 1) :
                dirs' = dirs \cup Prefixes(SubSeq(get_item_path(binder, Current), 1, k))
          /\ UNCHANGED <<files, made>>
       \/ /\ dirs' = dirs \cup Prefixes(get_item_path(binder, Current))
          /\ UNCHANGED <<files, made>>
       \/ /\ dirs' = dirs \cup Prefixes(get_item_path(binder, Current))
          /\ files' = files \cup {file_path(binder, Current)}
          /\ made' = made \cup {[item |-> Current, what |-> "file",
                                 path |-> file_path(binder, Current)]}
    /\ errors' = Append(errors, ItemError(binder[Current]))
    /\ Advance
    /\ UNCHANGED <<documents_converted, folders_created, skipped>>

\* A visit that makes a directory for an entry of another kind.
VisitOtherMkdir ==
    /\ AtItem
    /\ Emitted(Current)
    /\ ~is_folder(binder[Current])
    /\ ~is_text(binder[Current])
    /\ dirs' = dirs \cup Prefixes(folder_path(binder, Current))
    /\ Advance
    /\ UNCHANGED <<documents_converted, folders_created, errors, skipped,
                   files, made>>

\* Lines 321, 328: neither branch is taken.
VisitOther ==
    /\ AtItem
    /\ Emitted(Current)
    /\ ~is_folder(binder[Current])
    /\ ~is_text(binder[Current])
    /\ Advance
    /\ UNCHANGED <<documents_converted, folders_created, errors, skipped,
                   dirs, files, made>>

\* Lines 359-362.
Finish ==
    /\ pc = "walk"
    /\ cursor = Len(order) + 1
    /\ success' = IF errors # <<>>
                  THEN final_success(errors, documents_converted)
                  ELSE success
    /\ pc' = "returned"
    /\ UNCHANGED <<source, binder, order, cursor, documents_converted, folders_created,
                   errors, skipped, fsVars, made, visited, pureVars>>

Next ==
    \/ OpenFails
    \/ OpenAndMkdir
    \/ MkdirRaises
    \/ VisitTrash
    \/ VisitInTrash
    \/ VisitFolder
    \/ VisitFolderFails
    \/ VisitText
    \/ VisitTextFails
    \/ VisitOther
    \/ Finish

Spec == Init /\ [][Next]_vars

\* ------------------------------------------------------------ pure functions
\* No conversion is running.
IdleRun ==
    /\ pc = "idle"
    /\ source = "ok"
    /\ output_dir = "absent"
    /\ binder = <<>>
    /\ order = <<>>
    /\ cursor = 0
    /\ success = TRUE
    /\ documents_converted = 0
    /\ folders_created = 0
    /\ errors = <<>>
    /\ skipped = <<>>
    /\ dirs = {}
    /\ files = {}
    /\ made = {}
    /\ visited = <<>>

InitSanitize ==
    /\ sName \in Strings(MaxLen)
    /\ sOut = <<>>
    /\ gPos = 0
    /\ gTitle = <<>>
    /\ gSeg = <<>>
    /\ IdleRun

\* sanitize_filename applied to the name, then to its own result.
ApplySanitize ==
    /\ Len(sOut) < 2
    /\ sOut' = Append(sOut, sanitize_filename(IF sOut = <<>> THEN sName
                                               ELSE sOut[Len(sOut)]))
    /\ UNCHANGED <<sName, gPos, gTitle, gSeg, runVars>>

NextSanitize == ApplySanitize

SpecSanitize == InitSanitize /\ [][NextSanitize]_vars

\* Titles as the parser delivers them: never empty.
InitSegment ==
    /\ sName = <<>>
    /\ sOut = <<>>
    /\ gPos \in 0..MaxPosition
    /\ gTitle \in Strings(MaxTitleLen) \ {<<>>}
    /\ gSeg = <<>>
    /\ IdleRun

\* The segment the orchestrator writes for an entry at gPos titled gTitle.
MakeSegment ==
    /\ gSeg = <<>>
    /\ gSeg' = <<segment_name(gPos, gTitle)>>
    /\ UNCHANGED <<sName, sOut, gPos, gTitle, runVars>>

NextSegment == MakeSegment

SpecSegment == InitSegment /\ [][NextSegment]_vars

\* ------------------------------------------------------------ vocabulary of the claims
\* The entries above entry i, as a set (0 is no entry).
RECURSIVE Ancestors(_, _)
Ancestors(b, i) ==
    IF b[i].parent = 0 THEN {}
    ELSE {b[i].parent} \cup Ancestors(b, b[i].parent)

Depth(b, i) == Cardinality(Ancestors(b, i))

IsTrashFolder(b, i) == b[i].item_type = "TrashFolder"

UnderTrash(b, i) == \E a \in Ancestors(b, i) : IsTrashFolder(b, a)

Live(b) == {i \in Items(b) : ~IsTrashFolder(b, i) /\ ~UnderTrash(b, i)}

LiveTexts(b) == {i \in Live(b) : b[i].item_type = "Text"}

LiveFolders(b) ==
    {i \in Live(b) : b[i].item_type \in {"Folder", "DraftFolder", "ResearchFolder"}}

OtherKind(b) ==
    {i \in Items(b) :
        b[i].item_type \notin {"Folder", "DraftFolder", "ResearchFolder",
                               "TrashFolder", "Text"}}

MadeBy(i) == {m \in made : m.item = i}

Returned == pc = "returned" /\ source = "ok"

\* The ancestors of i from the top-level one down to the direct parent.
TopDown(b, i) ==
    [k \in 1..Depth(b, i) |->
        CHOOSE a \in Ancestors(b, i) : Depth(b, a) = k - 1]

RECURSIVE SegmentsOf(_, _)
SegmentsOf(b, chain) ==
    IF chain = <<>> THEN <<>>
    ELSE (IF IsTrashFolder(b, Head(chain)) THEN <<>>
          ELSE <<Format02d(b[Head(chain)].position + 1) \o <<" ">>
                   \o sanitize_filename(b[Head(chain)].title)>>)
         \o SegmentsOf(b, Tail(chain))

Digits == {"0", "1", "2", "3", "4", "5", "6", "7", "8", "9"}

DigitValue(c) == CHOOSE d \in 0..9 : DigitChar(d) = c

RECURSIVE DecValue(_)
DecValue(s) ==
    IF s = <<>> THEN 0
    ELSE 10 * DecValue(SubSeq(s, 1, Len(s) - 1)) + DigitValue(s[Len(s)])

\* The characters of a segment before its first space, and those after it.
FirstSpace(seg) == CHOOSE k \in 1..Len(seg) :
                      seg[k] = " " /\ \A j \in 1..(k - 1) : seg[j] # " "

NumberOf(seg) == SubSeq(seg, 1, FirstSpace(seg) - 1)

NameOf(seg) == SubSeq(seg, FirstSpace(seg) + 1, Len(seg))

\* ------------------------------------------------------------ claims
\* C1: after a run that opened the project and recorded no error, every Text
\* entry outside the trash has exactly one Markdown file, no two of them
\* share a path, every Folder/DraftFolder/ResearchFolder entry outside the
\* trash has exactly one directory, and no TrashFolder entry or descendant of
\* one has produced a file or a directory.
C1_OneArtifactPerLiveEntry ==
    (Returned /\ errors = <<>>) =>
        /\ \A i \in LiveTexts(binder) :
              /\ Cardinality(MadeBy(i)) = 1
              /\ \A m \in MadeBy(i) : m.what = "file" /\ m.path \in files
        /\ \A i, j \in LiveTexts(binder) :
              i # j => \A m \in MadeBy(i), n \in MadeBy(j) : m.path # n.path
        /\ Cardinality(files) = Cardinality(LiveTexts(binder))
        /\ \A i \in LiveFolders(binder) :
              /\ Cardinality(MadeBy(i)) = 1
              /\ \A m \in MadeBy(i) : m.what = "dir" /\ m.path \in dirs
        /\ \A i, j \in LiveFolders(binder) :
              i # j => \A m \in MadeBy(i), n \in MadeBy(j) : m.path # n.path
        /\ \A m \in made : m.item \in Live(binder)

\* Two Text siblings with the same title, and a trash folder, all converted.
C1_Witness ==
    /\ Returned
    /\ errors = <<>>
    /\ \E i, j \in LiveTexts(binder) :
          /\ i # j
          /\ binder[i].parent = binder[j].parent
          /\ binder[i].title = binder[j].title
    /\ \E t \in Items(binder) : IsTrashFolder(binder, t)

\* C2: when opening the project fails, the run returns at once with
\* success = false, exactly one error message, both counters at zero and no
\* skip notice, leaves the destination and the vault as they were, and takes
\* no further step.
C2_OpenFailureReturnsAtOnce ==
    [][/\ (pc = "start" /\ source # "ok") =>
              /\ pc' = "returned"
              /\ success' = FALSE
              /\ Len(errors') = 1
              /\ errors'[1].msg = "Could not open project"
              /\ documents_converted' = 0
              /\ folders_created' = 0
              /\ skipped' = <<>>
              /\ output_dir' = output_dir
              /\ dirs' = {} /\ files' = {}
       /\ (pc = "returned" /\ source # "ok") => FALSE]_vars

\* A failed open has returned and the destination is still absent.
C2_Witness ==
    /\ pc = "returned"
    /\ source = "ParseError"
    /\ output_dir = "absent"
    /\ Len(errors) = 1

\* C3: convert_project always returns a result; no failure at any stage
\* reaches the caller as an exception.
C3_NeverRaises == pc # "raised"

\* C4: a visit that raises appends exactly one error carrying the entry's
\* title, increments neither counter and moves on to the next entry; the
\* walk visits every entry in pre-order up to the last, and every entry
\* outside the trash of a kind that is emitted ends up counted or reported.
C4_FailureDoesNotStopTheWalk ==
    [][/\ (pc = "walk" /\ errors' # errors) =>
              /\ errors' = Append(errors, ItemError(binder[order[cursor]]))
              /\ documents_converted' = documents_converted
              /\ folders_created' = folders_created
              /\ skipped' = skipped
              /\ cursor' = cursor + 1
              /\ pc' = "walk"
              /\ order' = order /\ binder' = binder
       /\ (pc = "walk" /\ pc' = "returned") =>
              /\ visited' = [k \in 1..Cardinality(Items(binder)) |-> k]
              /\ documents_converted' + folders_created' + Len(errors')
                    = Cardinality(LiveTexts(binder) \cup LiveFolders(binder))]_vars

\* The first entry failed and a later one was converted.
C4_Witness ==
    /\ Returned
    /\ Len(errors) = 1
    /\ order[1] \in Live(binder)
    /\ MadeBy(order[1]) = {}
    /\ errors[1].title = binder[order[1]].title
    /\ documents_converted >= 1

\* C5: a run that passed the parse stage is reported failed only if the
\* number of errors is at least documents_converted.
C5_FailedOnlyIfErrorsNotFewer ==
    Returned => (success = FALSE => Len(errors) >= documents_converted)

\* One error, two documents: still reported successful.
C5_Witness ==
    /\ Returned
    /\ Len(errors) = 1
    /\ documents_converted = 2
    /\ success = TRUE

\* C6: visiting a TrashFolder appends one skip notice and changes nothing
\* else; visiting an entry below a TrashFolder that is not one itself changes
\* nothing at all; a project of one TrashFolder holding one Text child ends
\* with no document, at least one skip notice and no file or directory.
C6_TrashIsSkipped ==
    [][/\ (AtItem /\ IsTrashFolder(binder, order[cursor])) =>
              /\ skipped' = Append(skipped, SkipNotice(binder[order[cursor]]))
              /\ UNCHANGED <<documents_converted, folders_created, errors,
                             success, fsVars, made>>
       /\ (AtItem /\ ~IsTrashFolder(binder, order[cursor])
                  /\ UnderTrash(binder, order[cursor])) =>
              UNCHANGED <<resultVars, fsVars, made>>
       /\ (pc' = "returned" /\ source = "ok"
              /\ Cardinality(Items(binder)) = 2
              /\ IsTrashFolder(binder, 1)
              /\ binder[2].item_type = "Text" /\ binder[2].parent = 1) =>
              /\ documents_converted' = 0
              /\ Len(skipped') >= 1
              /\ files' = {} /\ dirs' = {}]_vars

\* A Text entry two levels below a TrashFolder has been visited.
C6_Witness ==
    /\ Returned
    /\ \E k \in 1..Len(visited) :
          /\ binder[visited[k]].item_type = "Text"
          /\ UnderTrash(binder, visited[k])
          /\ ~IsTrashFolder(binder, binder[visited[k]].parent)
    /\ Len(skipped) = 1

\* C7 as stated: the number in front of a segment has exactly two digits
\* for every position.
C7_AlwaysTwoDigits ==
    gSeg # <<>> =>
        /\ Len(NumberOf(gSeg[1])) = 2
        /\ DecValue(NumberOf(gSeg[1])) = gPos + 1
        /\ NameOf(gSeg[1]) = sanitize_filename(gTitle)

\* C7: a segment is the decimal rendering of position + 1 padded with zeros
\* to at least two digits (exactly two up to 99, no leading zero beyond),
\* then one space, then the sanitized title; positions 0 and 1 give "01"
\* and "02".
C7_PaddedNumberSpaceTitle ==
    gSeg # <<>> =>
        LET num == NumberOf(gSeg[1])
        IN /\ \A k \in 1..Len(num) : num[k] \in Digits
           /\ DecValue(num) = gPos + 1
           /\ Len(num) >= 2
           /\ (Len(num) = 2) <=> (gPos + 1 <= 99)
           /\ (Len(num) > 2) => num[1] # "0"
           /\ NameOf(gSeg[1]) = sanitize_filename(gTitle)
           /\ (gPos = 0) => num = <<"0", "1">>
           /\ (gPos = 1) => num = <<"0", "2">>

\* The hundredth sibling, with a title the sanitizer changes.
C7_Witness ==
    /\ gSeg # <<>>
    /\ gPos = 99
    /\ gTitle = <<"a", "/">>
    /\ gSeg[1] = <<"1", "0", "0", " ", "a", "-">>

\* C8 as stated: after the run nothing in the vault is named after an entry
\* of another kind, whatever its children.
C8_NoArtifactNamedAfterOther ==
    Returned =>
        \A i \in OtherKind(binder) \cap Live(binder) :
            /\ folder_path(binder, i) \notin dirs
            /\ file_path(binder, i) \notin files

\* C8: visiting an entry of another kind changes neither the result nor the
\* vault; after the run no file is named after it, and a directory is named
\* after it only if it has a Text or folder descendant outside the trash.
C8_OtherKindWritesNothingItself ==
    [][/\ (AtItem /\ order[cursor] \in OtherKind(binder)) =>
              UNCHANGED <<resultVars, fsVars, made>>
       /\ (pc' = "returned" /\ source = "ok") =>
              \A i \in OtherKind(binder) \cap Live(binder) :
                  /\ MadeBy(i)' = {}
                  /\ file_path(binder, i) \notin files'
                  /\ folder_path(binder, i) \in dirs' =>
                        \E j \in LiveTexts(binder) \cup LiveFolders(binder) :
                            i \in Ancestors(binder, j)]_vars

\* An entry of another kind with a Text child: its directory exists.
C8_Witness ==
    /\ Returned
    /\ \E i \in OtherKind(binder) \cap Live(binder) :
          /\ folder_path(binder, i) \in dirs
          /\ \E j \in LiveTexts(binder) : binder[j].parent = i

\* C9: sanitize_filename applied to its own result returns that result.
C9_SanitizeIdempotent ==
    Len(sOut) = 2 => sOut[2] = sOut[1]

\* A name of spaces and dots: sanitized to the placeholder, then again.
C9_Witness ==
    /\ Len(sOut) = 2
    /\ sName # <<>>
    /\ sOut[1] = Untitled

\* C10: for every entry of the opened project (the tree never changes, so
\* it is examined once, when the walk begins) get_item_path lists one
\* segment per ancestor that is not a TrashFolder, from the top-level
\* ancestor down to the direct parent, the entry itself left out; a
\* top-level entry gets the empty list; every artifact an entry produced
\* lies as many segments deep as the entry.
C10_PathIsAncestorsTopDown ==
    /\ (pc = "walk" /\ cursor = 1) =>
          \A i \in Items(binder) :
              /\ get_item_path(binder, i) = SegmentsOf(binder, TopDown(binder, i))
              /\ binder[i].parent = 0 => get_item_path(binder, i) = <<>>
    /\ \A m \in made :
          /\ Len(get_item_path(binder, m.item)) = Depth(binder, m.item)
          /\ Len(m.path) = Depth(binder, m.item) + 1
          /\ SubSeq(m.path, 1, Len(m.path) - 1)
                = SegmentsOf(binder, TopDown(binder, m.item))

\* An entry two levels deep, below ancestors with different segments, was
\* emitted.
C10_Witness ==
    \E m \in made :
        /\ Depth(binder, m.item) = 2
        /\ m.path[1] # m.path[2]
        /\ m.path \in files

====
